---- MODULE Spec2Model ----
(***************************************************************************)
(* Fleet trip / fuel ledger of src/app.py (a Streamlit script).            *)
(*                                                                         *)
(* Every interaction of a browser session re-runs the whole script: the    *)
(* run loads both CSV tables (lines 275-276), executes the handler of the  *)
(* pressed button on the loaded DataFrames and, when the handler succeeds, *)
(* writes a whole table back (save_csv).  Runs of different sessions are   *)
(* separate threads, so the load step and the handler step of different    *)
(* sessions interleave.                                                    *)
(*                                                                         *)
(* Units.  Odometer readings and distances are integers in 0.001 km,       *)
(* litres are integers in 0.01 L, efficiencies are integers in 0.01 km/L,  *)
(* allowances are integers in 0.01 currency units, timestamps are whole    *)
(* seconds (now_iso formats to the second).  A missing number (pd.NA/NaN)  *)
(* is NA_NUM, a missing timestamp (NaT) is NaT, a missing path is NoPhoto. *)
(* A missing text cell of a DataFrame is NaN; in a CSV file it is "".      *)
(*                                                                         *)
(* Columns that no handler reads back (DriverContact, VehicleType, Origin, *)
(* Destination, Purpose, PurposeCategory, Cost) are left out of the rows.  *)
(***************************************************************************)
EXTENDS Integers, Sequences, FiniteSets, TLC

(* ------------------------------ bounds -------------------------------- *)
MaxTrips == 2
MaxFuel == 2
MaxClock == 1
NaMaxTrips == 3
MaxUploads == 3
SeqMaxUploads == 4

Sessions == {"s1", "s2"}

(* --------------------------- program constants ------------------------ *)
VEHICLES == {"KCA 940V", "KCB 621S"}

NA_NUM == -1
NaT == -1
NoPhoto == 0
PhotoRef == 1
NaN == "<NaN>"
SecondsPerDay == 86400
TRIPS_CSV == "data/trips.csv"
FUEL_CSV == "data/fuel_logs.csv"

(* pandas.read_csv default na_values that the inputs of this model use *)
NA_VALUES == {"", "N/A"}

VARIABLES
  trips_csv,      \* data/trips.csv: sequence of trip rows (file cells)
  fuel_csv,       \* data/fuel_logs.csv: sequence of fuel rows (file cells)
  uploads,        \* number of files in the uploads/ tree (paths are 1..uploads)
  clock,          \* datetime.now(), in whole seconds
  nextTrip,       \* TripIDs minted so far + 1 (uuid-based ids never collide)
  nextFuel,       \* FuelIDs minted so far + 1
  session_state,  \* st.session_state of every browser session
  pc,             \* position of the session's current script run
  trips_df,       \* the run's trips_df
  fuel_df,        \* the run's fuel_df
  overwritten,    \* history: stored trip rows that a Start Trip write dropped
  refuel_log,     \* history: the fuel rows as Log Refuel created them, by FuelID
  gate_log,       \* history: the gate-pass number of every trip created, by TripID
  deleted_trips   \* history: the TripIDs that Delete Selected Trips removed

vars == <<trips_csv, fuel_csv, uploads, clock, nextTrip, nextFuel,
          session_state, pc, trips_df, fuel_df, overwritten, refuel_log, gate_log, deleted_trips>>

store == <<trips_csv, fuel_csv, uploads>>

(* ------------------------------ helpers ------------------------------- *)
Range(f) == {f[i] : i \in DOMAIN f}

RECURSIVE SumSeq(_)
SumSeq(q) == IF q = <<>> THEN 0 ELSE Head(q) + SumSeq(Tail(q))

Max(S) == CHOOSE x \in S : \A y \in S : y <= x

(* str.strip() on the text inputs of this model *)
strip(x) == CASE x = " GP1 " -> "GP1"
              [] x = " "     -> ""
              [] OTHER       -> x

(* now_iso(): the wall clock formatted to the second *)
now_iso == clock

(* round(x, 2) of a value in 0.001 units (inputs avoid exact ties) *)
round2(x) == LET r == x % 10 IN IF r < 5 THEN x - r ELSE x - r + 10

(* round(a / b, 2) in 0.01 units, a in 0.001 km and b in 0.01 L *)
round_div(a, b) == ((20 * a) + b) \div (2 * b)

(* ------------------------- CSV load and save -------------------------- *)
(* read_csv(dtype="object"): a text cell in na_values loads as NaN *)
read_cell(c) == IF c \in NA_VALUES THEN NaN ELSE c

(* to_csv: a NaN text cell is written as the empty string *)
write_cell(c) == IF c = NaN THEN "" ELSE c

read_trip(r) == [r EXCEPT !.VehicleReg = read_cell(@), !.Driver = read_cell(@),
                          !.GatePassNumber = read_cell(@), !.Status = read_cell(@)]

write_trip(r) == [r EXCEPT !.VehicleReg = write_cell(@), !.Driver = write_cell(@),
                           !.GatePassNumber = write_cell(@), !.Status = write_cell(@)]

(* the load with DistanceSinceLastRefuelKM coerced to a missing number *)
read_fuel_m(r) == [r EXCEPT !.VehicleReg = read_cell(@), !.Driver = read_cell(@),
                            !.DistanceSinceLastRefuelKM = NA_NUM]

read_fuel(r) == [r EXCEPT !.VehicleReg = read_cell(@), !.Driver = read_cell(@)]

write_fuel(r) == [r EXCEPT !.VehicleReg = write_cell(@), !.Driver = write_cell(@)]

load_csv_with_schema(path, file) ==
  [i \in DOMAIN file |-> IF path = TRIPS_CSV THEN read_trip(file[i]) ELSE read_fuel(file[i])]

save_csv(path, df) ==
  [i \in DOMAIN df |-> IF path = TRIPS_CSV THEN write_trip(df[i]) ELSE write_fuel(df[i])]

(* save_upload writes one more file to the uploads/ tree and returns its    *)
(* path.  The blob store is the number of files it holds; a row keeps the  *)
(* reference as PhotoRef (the generated name itself is never read back).   *)
save_upload(n) == n + 1

(* --------------------------- trip lifecycle --------------------------- *)
(* The candidates for head(1) after the descending sort on StartDateTime:  *)
(* the matching open rows with the latest start (the sort is not stable,   *)
(* so a tie is broken arbitrarily).                                        *)
get_open_trip_for_driver(df, driver, vehicle_reg) ==
  LET mask == {i \in DOMAIN df :
                 /\ df[i].Driver = driver
                 /\ df[i].Status = "open"
                 /\ (vehicle_reg # "" => df[i].VehicleReg = vehicle_reg)}
  IN {df[i] : i \in {j \in mask : \A k \in mask :
                                     df[k].StartDateTime <= df[j].StartDateTime}}

Init ==
  /\ trips_csv = <<>>
  /\ fuel_csv = <<>>
  /\ uploads = 0
  /\ clock = 0
  /\ nextTrip = 1
  /\ nextFuel = 1
  /\ session_state = [s \in Sessions |->
        [logged_in |-> FALSE, role |-> "", vehicle |-> "", open_trip_for_driver |-> <<>>]]
  /\ pc = [s \in Sessions |-> "idle"]
  /\ trips_df = [s \in Sessions |-> <<>>]
  /\ fuel_df = [s \in Sessions |-> <<>>]
  /\ overwritten = {}
  /\ refuel_log = <<>>
  /\ gate_log = <<>>
  /\ deleted_trips = {}

(* ------------------------------ inputs -------------------------------- *)
(* What the sessions type.  " GP1 " and " " exercise strip(); "N/A" is a    *)
(* gate-pass text that read_csv parses as missing; 90000 lies below the     *)
(* start odometer; 150004 is not a multiple of 0.01 km.                     *)
NoAllowances == [DailyAllowance |-> 0, OffloadingPay |-> 0, LoaderAllowance |-> 0,
                 SecurityFee |-> 0, ParkingFee |-> 0, NightOutAllowance |-> 0]
SomeAllowances == [NoAllowances EXCEPT !.DailyAllowance = 50000, !.ParkingFee = 2000]

(* the Vehicle Registration widget: pre-filled and disabled for a driver *)
vehicle_widget(s, typed) ==
  IF session_state[s].role = "driver" THEN session_state[s].vehicle ELSE strip(typed)

AStart == [vehicle_reg |-> "KCA 940V", driver |-> "A", gate_pass_number |-> "GP1",
           start_mileage |-> 100000, start_photo |-> TRUE]
AnEnd == [end_mileage |-> 150004, end_photo |-> TRUE, allowances |-> NoAllowances]
ARefuel == [vehicle_reg |-> "KCA 940V", driver |-> "A", litres |-> 1000,
            mileage_photo |-> FALSE, receipt_photo |-> TRUE]

(* one form for every validation rule of a handler *)
InvalidStartForms == {[AStart EXCEPT !.vehicle_reg = ""], [AStart EXCEPT !.driver = " "],
                      [AStart EXCEPT !.gate_pass_number = ""],
                      [AStart EXCEPT !.start_photo = FALSE]}
InvalidEndForms == {[AnEnd EXCEPT !.end_photo = FALSE], [AnEnd EXCEPT !.end_mileage = 90000]}
InvalidRefuelForms == {[ARefuel EXCEPT !.vehicle_reg = ""], [ARefuel EXCEPT !.driver = " "],
                       [ARefuel EXCEPT !.litres = 0],
                       [ARefuel EXCEPT !.receipt_photo = FALSE]}

(* the forms submitted while runs interleave *)
StartForms ==
  InvalidStartForms \cup
  [vehicle_reg : {"KCA 940V"}, driver : {"A", "B"},
   gate_pass_number : {"GP1", " GP1 ", "GP2", "N/A"}, start_mileage : {100000}, start_photo : {TRUE}]

FindForms == [vehicle_reg : {"KCA 940V"}, driver : {"A", "B", " "}]

EndForms == InvalidEndForms \cup {AnEnd}

RefuelForms == InvalidRefuelForms \cup {ARefuel}

(* the forms submitted by a session that is alone *)
SeqPairs == {<<"A", "KCA 940V">>, <<"B", "KCA 940V">>, <<"A", "KCB 621S">>}

SeqStartForms ==
  InvalidStartForms \cup
  {[AStart EXCEPT !.driver = p[1], !.vehicle_reg = p[2], !.gate_pass_number = g] :
     p \in SeqPairs, g \in {"GP1", "N/A"}}

SeqFindForms ==
  {[vehicle_reg |-> p[2], driver |-> p[1]] : p \in SeqPairs} \cup
  {[vehicle_reg |-> "", driver |-> "A"]}

SeqEndForms ==
  InvalidEndForms \cup
  {AnEnd, [AnEnd EXCEPT !.end_mileage = 150000, !.allowances = SomeAllowances]}

SeqRefuelForms ==
  InvalidRefuelForms \cup
  {[ARefuel EXCEPT !.driver = p[1], !.vehicle_reg = p[2]] : p \in SeqPairs} \cup
  {[ARefuel EXCEPT !.mileage_photo = TRUE, !.litres = 400]}

(* ------------------------- login page, logout ------------------------- *)
DriverLogin(s, vehicle_number) ==
  /\ pc[s] = "idle"
  /\ ~session_state[s].logged_in
  /\ vehicle_number \in VEHICLES
  /\ session_state' = [session_state EXCEPT ![s].logged_in = TRUE,
                                            ![s].role = "driver",
                                            ![s].vehicle = vehicle_number]
  /\ UNCHANGED <<trips_csv, fuel_csv, uploads, clock, nextTrip, nextFuel,
                 pc, trips_df, fuel_df, overwritten, refuel_log, gate_log, deleted_trips>>

AdminLogin(s) ==
  /\ pc[s] = "idle"
  /\ ~session_state[s].logged_in
  /\ session_state' = [session_state EXCEPT ![s].logged_in = TRUE,
                                            ![s].role = "admin",
                                            ![s].vehicle = ""]
  /\ UNCHANGED <<trips_csv, fuel_csv, uploads, clock, nextTrip, nextFuel,
                 pc, trips_df, fuel_df, overwritten, refuel_log, gate_log, deleted_trips>>

Logout(s) ==
  /\ pc[s] = "idle"
  /\ session_state[s].logged_in
  /\ session_state' = [session_state EXCEPT ![s].logged_in = FALSE,
                                            ![s].role = "",
                                            ![s].vehicle = ""]
  /\ UNCHANGED <<trips_csv, fuel_csv, uploads, clock, nextTrip, nextFuel,
                 pc, trips_df, fuel_df, overwritten, refuel_log, gate_log, deleted_trips>>

(* ------------------ a script run starts: LOAD DATA -------------------- *)
Rerun(s) ==
  /\ pc[s] = "idle"
  /\ session_state[s].logged_in
  /\ pc' = [pc EXCEPT ![s] = "loaded"]
  /\ trips_df' = [trips_df EXCEPT ![s] = load_csv_with_schema(TRIPS_CSV, trips_csv)]
  /\ fuel_df' = [fuel_df EXCEPT ![s] = load_csv_with_schema(FUEL_CSV, fuel_csv)]
  /\ UNCHANGED <<trips_csv, fuel_csv, uploads, clock, nextTrip, nextFuel,
                 session_state, overwritten, refuel_log, gate_log, deleted_trips>>

(* the run of session s ends: its DataFrames are gone *)
EndRun(s) ==
  /\ pc' = [pc EXCEPT ![s] = "idle"]
  /\ trips_df' = [trips_df EXCEPT ![s] = <<>>]
  /\ fuel_df' = [fuel_df EXCEPT ![s] = <<>>]

(* ----------------------------- START TRIP ----------------------------- *)
new_trip(trip_id, vehicle_reg, driver, gate_pass_number, start_mileage, start_photo_path) ==
  [TripID |-> trip_id, VehicleReg |-> vehicle_reg, Driver |-> driver,
   StartDateTime |-> now_iso, EndDateTime |-> NaT,
   GatePassNumber |-> gate_pass_number,
   StartMileage |-> start_mileage, StartMileagePhoto |-> start_photo_path,
   EndMileage |-> NA_NUM, EndMileagePhoto |-> NoPhoto, DistanceKM |-> NA_NUM,
   DailyAllowance |-> NA_NUM, OffloadingPay |-> NA_NUM, LoaderAllowance |-> NA_NUM,
   SecurityFee |-> NA_NUM, ParkingFee |-> NA_NUM, NightOutAllowance |-> NA_NUM,
   Status |-> "open"]

(* trips_df["GatePassNumber"].fillna("").astype(str).str.strip().unique() *)
existing_gates(df) ==
  {strip(IF df[i].GatePassNumber = NaN THEN "" ELSE df[i].GatePassNumber) : i \in DOMAIN df}

(* what the Start Trip handler reports for the run's table and the form *)
StartTripOutcome(s, f) ==
  LET vehicle_reg == vehicle_widget(s, f.vehicle_reg)
      driver == strip(f.driver)
      gate_pass_number == strip(f.gate_pass_number)
  IN IF vehicle_reg = "" THEN "ValidationError"
     ELSE IF driver = "" THEN "ValidationError"
     ELSE IF gate_pass_number = "" THEN "ValidationError"
     ELSE IF ~f.start_photo THEN "ValidationError"
     ELSE IF gate_pass_number \in existing_gates(trips_df[s]) /\ gate_pass_number # ""
          THEN "DuplicateGatePass"
     ELSE IF get_open_trip_for_driver(trips_df[s], driver, vehicle_reg) # {}
          THEN "OpenTripExists"
     ELSE "TripStarted"

(* the handler appending to the table as stored at the save, not as loaded *)
StartTrip_m(s, f) ==
  LET vehicle_reg == vehicle_widget(s, f.vehicle_reg)
      driver == strip(f.driver)
      gate_pass_number == strip(f.gate_pass_number)
      outcome == StartTripOutcome(s, f)
      start_photo_path == PhotoRef
      trip_id == nextTrip
      row == new_trip(trip_id, vehicle_reg, driver, gate_pass_number,
                      f.start_mileage, start_photo_path)
  IN /\ pc[s] = "loaded"
     /\ IF outcome = "TripStarted"
        THEN /\ uploads' = save_upload(uploads)
             /\ nextTrip' = nextTrip + 1
             /\ trips_csv' = save_csv(TRIPS_CSV,
                                      Append(load_csv_with_schema(TRIPS_CSV, trips_csv), row))
             /\ overwritten' = overwritten
             /\ gate_log' = Append(gate_log, gate_pass_number)
        ELSE UNCHANGED <<trips_csv, uploads, nextTrip, overwritten, gate_log>>
     /\ EndRun(s)
     /\ UNCHANGED <<fuel_csv, clock, nextFuel, session_state, refuel_log, deleted_trips>>

StartTrip(s, f) ==
  LET vehicle_reg == vehicle_widget(s, f.vehicle_reg)
      driver == strip(f.driver)
      gate_pass_number == strip(f.gate_pass_number)
      outcome == StartTripOutcome(s, f)
      start_photo_path == PhotoRef
      trip_id == nextTrip
      row == new_trip(trip_id, vehicle_reg, driver, gate_pass_number,
                      f.start_mileage, start_photo_path)
  IN /\ pc[s] = "loaded"
     /\ IF outcome = "TripStarted"
        THEN /\ uploads' = save_upload(uploads)
             /\ nextTrip' = nextTrip + 1
             /\ trips_csv' = save_csv(TRIPS_CSV, Append(trips_df[s], row))
             /\ overwritten' = overwritten \cup
                  {r \in Range(trips_csv) :
                     \A i \in DOMAIN trips_df[s] : trips_df[s][i].TripID # r.TripID}
             /\ gate_log' = Append(gate_log, gate_pass_number)
        ELSE UNCHANGED <<trips_csv, uploads, nextTrip, overwritten, gate_log>>
     /\ EndRun(s)
     /\ UNCHANGED <<fuel_csv, clock, nextFuel, session_state, refuel_log, deleted_trips>>

(* ------------------------------ END TRIP ------------------------------ *)
FindMyOpenTrip(s, f) ==
  LET vehicle_reg == vehicle_widget(s, f.vehicle_reg)
      driver == strip(f.driver)
      open_trip == get_open_trip_for_driver(trips_df[s], driver, vehicle_reg)
  IN /\ pc[s] = "loaded"
     /\ IF vehicle_reg = "" \/ driver = ""
        THEN UNCHANGED session_state
        ELSE IF open_trip = {}
        THEN UNCHANGED session_state
        ELSE \E t \in open_trip :
               session_state' = [session_state EXCEPT ![s].open_trip_for_driver = <<t>>]
     /\ EndRun(s)
     /\ UNCHANGED <<trips_csv, fuel_csv, uploads, clock, nextTrip, nextFuel,
                    overwritten, refuel_log, gate_log, deleted_trips>>

(* the row of the located trip after the assignments of lines 446-457 *)
closed_row(row, end_mileage, end_photo_path, distance_km, a) ==
  [row EXCEPT !.EndDateTime = now_iso,
              !.EndMileage = end_mileage,
              !.EndMileagePhoto = end_photo_path,
              !.DistanceKM = distance_km,
              !.Status = "closed",
              !.DailyAllowance = IF a.DailyAllowance # 0 THEN a.DailyAllowance ELSE 0,
              !.OffloadingPay = IF a.OffloadingPay # 0 THEN a.OffloadingPay ELSE 0,
              !.LoaderAllowance = IF a.LoaderAllowance # 0 THEN a.LoaderAllowance ELSE 0,
              !.SecurityFee = IF a.SecurityFee # 0 THEN a.SecurityFee ELSE 0,
              !.ParkingFee = IF a.ParkingFee # 0 THEN a.ParkingFee ELSE 0,
              !.NightOutAllowance = IF a.NightOutAllowance # 0 THEN a.NightOutAllowance ELSE 0]

(* the handler without the comparison of the end odometer with the start *)
EndTripOutcome_m(s, f) ==
  LET t == session_state[s].open_trip_for_driver[1]
      idx == {i \in DOMAIN trips_df[s] : trips_df[s][i].TripID = t.TripID}
  IN IF ~f.end_photo THEN "ValidationError"
     ELSE IF Cardinality(idx) = 1 THEN "TripEnded"
     ELSE "NotFound"

(* what the Submit End Trip handler reports for the run's table and the form *)
EndTripOutcome(s, f) ==
  LET t == session_state[s].open_trip_for_driver[1]
      start_m == IF t.StartMileage # NA_NUM THEN t.StartMileage ELSE 0
      idx == {i \in DOMAIN trips_df[s] : trips_df[s][i].TripID = t.TripID}
  IN IF ~f.end_photo THEN "ValidationError"
     ELSE IF f.end_mileage < start_m THEN "InvalidOdometer"
     ELSE IF Cardinality(idx) = 1 THEN "TripEnded"
     ELSE "NotFound"

(* the handler saving the photo before it compares the odometer readings *)
SubmitEndTrip_m(s, f) ==
  LET t == session_state[s].open_trip_for_driver[1]
      start_m == IF t.StartMileage # NA_NUM THEN t.StartMileage ELSE 0
      outcome == EndTripOutcome(s, f)
      end_photo_path == PhotoRef
      distance_km == round2(f.end_mileage - start_m)
      idx == {i \in DOMAIN trips_df[s] : trips_df[s][i].TripID = t.TripID}
  IN /\ pc[s] = "loaded"
     /\ session_state[s].open_trip_for_driver # <<>>
     /\ IF outcome # "ValidationError"
        THEN uploads' = save_upload(uploads)
        ELSE UNCHANGED uploads
     /\ IF outcome = "TripEnded"
        THEN LET i == CHOOSE j \in idx : TRUE
                 updated == [trips_df[s] EXCEPT
                               ![i] = closed_row(@, f.end_mileage, end_photo_path,
                                                 distance_km, f.allowances)]
             IN /\ trips_csv' = save_csv(TRIPS_CSV, updated)
                /\ session_state' =
                     [session_state EXCEPT ![s].open_trip_for_driver = <<>>]
        ELSE UNCHANGED <<trips_csv, session_state>>
     /\ EndRun(s)
     /\ UNCHANGED <<fuel_csv, clock, nextTrip, nextFuel, overwritten, refuel_log, gate_log, deleted_trips>>

SubmitEndTrip(s, f) ==
  LET t == session_state[s].open_trip_for_driver[1]
      start_m == IF t.StartMileage # NA_NUM THEN t.StartMileage ELSE 0
      outcome == EndTripOutcome(s, f)
      end_photo_path == PhotoRef
      distance_km == round2(f.end_mileage - start_m)
      idx == {i \in DOMAIN trips_df[s] : trips_df[s][i].TripID = t.TripID}
  IN /\ pc[s] = "loaded"
     /\ session_state[s].open_trip_for_driver # <<>>
     /\ IF outcome \in {"TripEnded", "NotFound"}
        THEN uploads' = save_upload(uploads)
        ELSE UNCHANGED uploads
     /\ IF outcome = "TripEnded"
        THEN LET i == CHOOSE j \in idx : TRUE
                 updated == [trips_df[s] EXCEPT
                               ![i] = closed_row(@, f.end_mileage, end_photo_path,
                                                 distance_km, f.allowances)]
             IN /\ trips_csv' = save_csv(TRIPS_CSV, updated)
                /\ session_state' =
                     [session_state EXCEPT ![s].open_trip_for_driver = <<>>]
        ELSE UNCHANGED <<trips_csv, session_state>>
     /\ EndRun(s)
     /\ UNCHANGED <<fuel_csv, clock, nextTrip, nextFuel, overwritten, refuel_log, gate_log, deleted_trips>>

(* ----------------------------- LOG REFUEL ----------------------------- *)
(* the comparison that also admits equal timestamps *)
dt_gt_m(a, b) == a # NaT /\ b # NaT /\ a >= b

(* a comparison of two pandas timestamps: False when either is NaT *)
dt_gt(a, b) == a # NaT /\ b # NaT /\ a > b
dt_le(a, b) == a # NaT /\ b # NaT /\ a <= b

(* Series.max() of timestamps skips NaT; NaT when nothing is left *)
dt_max(S) == IF S \ {NaT} = {} THEN NaT ELSE Max(S \ {NaT})

RECURSIVE sum_distance(_, _)
sum_distance(df, rows) ==
  IF rows = {} THEN 0
  ELSE LET i == CHOOSE j \in rows : TRUE
           d == IF df[i].DistanceKM = NA_NUM THEN 0 ELSE df[i].DistanceKM
       IN d + sum_distance(df, rows \ {i})

distance_since_last_refuel_km(trips, fuel, driver, vehicle_reg, this_refuel_time_iso) ==
  LET mine == {i \in DOMAIN trips :
                 /\ trips[i].Driver = driver
                 /\ trips[i].VehicleReg = vehicle_reg
                 /\ trips[i].Status = "closed"}
      fuel_d == {i \in DOMAIN fuel :
                   fuel[i].Driver = driver /\ fuel[i].VehicleReg = vehicle_reg}
      has_last == fuel # <<>> /\ fuel_d # {}
      last_refuel_dt == dt_max({fuel[i].DateTime : i \in fuel_d})
      between ==
        IF has_last
        THEN {i \in mine : /\ dt_gt(trips[i].EndDateTime, last_refuel_dt)
                           /\ dt_le(trips[i].EndDateTime, this_refuel_time_iso)}
        ELSE {i \in mine : dt_le(trips[i].EndDateTime, this_refuel_time_iso)}
  IN IF trips = <<>> THEN 0
     ELSE IF mine = {} THEN 0
     ELSE IF between = {} THEN 0
     ELSE sum_distance(trips, between)

(* the row with the distance and the efficiency in each other's column *)
new_fuel_m(fuel_id, vehicle_reg, driver, when, litres, mileage_path, receipt_path, dist_km, efficiency) ==
  [FuelID |-> fuel_id, VehicleReg |-> vehicle_reg, Driver |-> driver,
   DateTime |-> when, Litres |-> litres,
   MileagePhoto |-> mileage_path, ReceiptPhoto |-> receipt_path,
   DistanceSinceLastRefuelKM |-> efficiency,
   EfficiencyKMperL |-> round2(dist_km)]

new_fuel(fuel_id, vehicle_reg, driver, when, litres, mileage_path, receipt_path, dist_km, efficiency) ==
  [FuelID |-> fuel_id, VehicleReg |-> vehicle_reg, Driver |-> driver,
   DateTime |-> when, Litres |-> litres,
   MileagePhoto |-> mileage_path, ReceiptPhoto |-> receipt_path,
   DistanceSinceLastRefuelKM |-> round2(dist_km),
   EfficiencyKMperL |-> efficiency]

RefuelOutcome(s, f) ==
  IF vehicle_widget(s, f.vehicle_reg) = "" THEN "ValidationError"
  ELSE IF strip(f.driver) = "" THEN "ValidationError"
  ELSE IF f.litres <= 0 THEN "ValidationError"
  ELSE IF ~f.receipt_photo THEN "ValidationError"
  ELSE "RefuelLogged"

SubmitRefuel(s, f) ==
  LET vehicle_reg == vehicle_widget(s, f.vehicle_reg)
      driver == strip(f.driver)
      outcome == RefuelOutcome(s, f)
      when == now_iso
      mileage_path == IF f.mileage_photo THEN PhotoRef ELSE NoPhoto
      receipt_path == PhotoRef
      stored == IF f.mileage_photo THEN save_upload(save_upload(uploads))
                ELSE save_upload(uploads)
      dist_km == distance_since_last_refuel_km(trips_df[s], fuel_df[s], driver,
                                               vehicle_reg, when)
      efficiency == IF f.litres > 0 THEN round_div(dist_km, f.litres) ELSE NA_NUM
      row == new_fuel(nextFuel, vehicle_reg, driver, when, f.litres, mileage_path,
                      receipt_path, dist_km, efficiency)
  IN /\ pc[s] = "loaded"
     /\ IF outcome = "RefuelLogged"
        THEN /\ uploads' = stored
             /\ nextFuel' = nextFuel + 1
             /\ fuel_csv' = save_csv(FUEL_CSV, Append(fuel_df[s], row))
             /\ refuel_log' = Append(refuel_log, write_fuel(row))
        ELSE UNCHANGED <<fuel_csv, uploads, nextFuel, refuel_log>>
     /\ EndRun(s)
     /\ UNCHANGED <<trips_csv, clock, nextTrip, session_state, overwritten,
                    gate_log, deleted_trips>>

(* --------------------------- DELETE RECORDS --------------------------- *)
RECURSIVE drop(_, _)
(* df.drop(selected).reset_index(drop=True): the rows at the other positions *)
drop(df, selected) ==
  IF df = <<>> THEN <<>>
  ELSE LET n == Len(df)
           front == drop(SubSeq(df, 1, n - 1), selected)
       IN IF n \in selected THEN front ELSE Append(front, df[n])

DeleteSelectedTrips(s, selected_trips) ==
  /\ pc[s] = "loaded"
  /\ session_state[s].role = "admin"
  /\ trips_df[s] # <<>>
  /\ selected_trips # {}
  /\ selected_trips \subseteq DOMAIN trips_df[s]
  /\ trips_csv' = save_csv(TRIPS_CSV, drop(trips_df[s], selected_trips))
  /\ deleted_trips' = deleted_trips \cup {trips_df[s][i].TripID : i \in selected_trips}
  /\ EndRun(s)
  /\ UNCHANGED <<fuel_csv, uploads, clock, nextTrip, nextFuel, session_state,
                 overwritten, refuel_log, gate_log>>

DeleteSelectedFuel(s, selected_fuel) ==
  /\ pc[s] = "loaded"
  /\ session_state[s].role = "admin"
  /\ fuel_df[s] # <<>>
  /\ selected_fuel # {}
  /\ selected_fuel \subseteq DOMAIN fuel_df[s]
  /\ fuel_csv' = save_csv(FUEL_CSV, drop(fuel_df[s], selected_fuel))
  /\ EndRun(s)
  /\ UNCHANGED <<trips_csv, uploads, clock, nextTrip, nextFuel, session_state,
                 overwritten, refuel_log, gate_log, deleted_trips>>

(* --------------------------- VIEW DASHBOARD --------------------------- *)
(* Timestamp.dt.date: the day of a timestamp.  Second 0 of the clock is   *)
(* 23:59:59, so the second tick of the clock is in the next day.           *)
date(ts) == (ts + (SecondsPerDay - 1)) \div SecondsPerDay

(* the rows of a table that isin(filter) keeps; an empty filter keeps all *)
isin(value, filter) == filter = {} \/ (value # NaN /\ value \in filter)

(* the trips the dashboard lists for the sidebar filters *)
filtered_trips(trips, filter_by_date, start_date, end_date, vehicle_filter, driver_filter) ==
  SelectSeq(trips, LAMBDA t :
    /\ filter_by_date => /\ t.StartDateTime # NaT
                         /\ date(t.StartDateTime) >= start_date
                         /\ date(t.StartDateTime) <= end_date
    /\ isin(t.VehicleReg, vehicle_filter)
    /\ isin(t.Driver, driver_filter))

(* the fuel entries the dashboard lists for the sidebar filters *)
filtered_fuel(fuel, filter_by_date, start_date, end_date, vehicle_filter, driver_filter) ==
  SelectSeq(fuel, LAMBDA e :
    /\ filter_by_date => /\ e.DateTime # NaT
                         /\ date(e.DateTime) >= start_date
                         /\ date(e.DateTime) <= end_date
    /\ isin(e.VehicleReg, vehicle_filter)
    /\ isin(e.Driver, driver_filter))

(* ------------------------------- clock -------------------------------- *)
Tick ==
  /\ clock < MaxClock
  /\ clock' = clock + 1
  /\ UNCHANGED <<trips_csv, fuel_csv, uploads, nextTrip, nextFuel, session_state,
                 pc, trips_df, fuel_df, overwritten, refuel_log, gate_log, deleted_trips>>

(* the counters stay within the bounds of the model *)
Bounded(max_uploads) ==
  /\ nextTrip' <= MaxTrips + 1
  /\ nextFuel' <= MaxFuel + 1
  /\ uploads' <= max_uploads

(* Two administrator sessions whose runs interleave, within one second of  *)
(* the wall clock.  An administrator types the vehicle registration, so    *)
(* the sessions reach every ledger operation a driver session reaches.     *)
Next ==
  \/ \E s \in Sessions : AdminLogin(s)
  \/ \E s \in Sessions : Rerun(s)
  \/ \E s \in Sessions, f \in StartForms : StartTrip(s, f) /\ Bounded(MaxUploads)
  \/ \E s \in Sessions, f \in FindForms : FindMyOpenTrip(s, f)
  \/ \E s \in Sessions, f \in EndForms : SubmitEndTrip(s, f) /\ Bounded(MaxUploads)
  \/ \E s \in Sessions, f \in RefuelForms : SubmitRefuel(s, f) /\ Bounded(MaxUploads)
  \/ \E s \in Sessions, sel \in SUBSET (1..MaxTrips) : DeleteSelectedTrips(s, sel)
  \/ \E s \in Sessions, sel \in SUBSET (1..MaxFuel) : DeleteSelectedFuel(s, sel)

Spec == Init /\ [][Next]_vars

(* One administrator session on its own: its runs follow one another, the *)
(* wall clock advances, and it types more than the racing sessions do.     *)
Alone == "s1"

SeqNext ==
  \/ AdminLogin(Alone)
  \/ Rerun(Alone)
  \/ \E f \in SeqStartForms : StartTrip(Alone, f) /\ Bounded(SeqMaxUploads)
  \/ \E f \in SeqFindForms : FindMyOpenTrip(Alone, f)
  \/ \E f \in SeqEndForms : SubmitEndTrip(Alone, f) /\ Bounded(SeqMaxUploads)
  \/ \E f \in SeqRefuelForms : SubmitRefuel(Alone, f) /\ Bounded(SeqMaxUploads)
  \/ \E sel \in SUBSET (1..MaxTrips) : DeleteSelectedTrips(Alone, sel)
  \/ \E sel \in SUBSET (1..MaxFuel) : DeleteSelectedFuel(Alone, sel)
  \/ Tick

SeqSpec == Init /\ [][SeqNext]_vars

(* One administrator session that only starts trips, and types "N/A" where *)
(* it does not know the driver or the gate-pass number.                     *)
NaStartForms ==
  {[AStart EXCEPT !.driver = d, !.gate_pass_number = g] :
     d \in {"A", "N/A"}, g \in {"GP1", "GP2", "GP3", "N/A"}}

NaNext ==
  \/ AdminLogin(Alone)
  \/ Rerun(Alone)
  \/ \E f \in NaStartForms : StartTrip(Alone, f) /\ nextTrip' <= NaMaxTrips + 1

NaSpec == Init /\ [][NaNext]_vars

(* One browser session used by drivers: it logs in for a vehicle, starts,  *)
(* finds and ends trips, logs out and logs in again, for any vehicle.      *)
DriverStartForms ==
  {[AStart EXCEPT !.gate_pass_number = g] : g \in {"GP1", "GP2"}} \cup
  {[AStart EXCEPT !.start_photo = FALSE]}

DriverFindForms == {[vehicle_reg |-> "", driver |-> d] : d \in {"A", "B"}}

DriverNext ==
  \/ \E vehicle_number \in VEHICLES : DriverLogin(Alone, vehicle_number)
  \/ Logout(Alone)
  \/ Rerun(Alone)
  \/ \E f \in DriverStartForms : StartTrip(Alone, f) /\ Bounded(SeqMaxUploads)
  \/ \E f \in DriverFindForms : FindMyOpenTrip(Alone, f)
  \/ \E f \in SeqEndForms : SubmitEndTrip(Alone, f) /\ Bounded(SeqMaxUploads)

DriverSpec == Init /\ [][DriverNext]_vars

(* ====================== properties of the ledger ====================== *)
TripIDs(table) == {table[i].TripID : i \in DOMAIN table}

ClosedTrips == {i \in DOMAIN trips_csv : trips_csv[i].Status = "closed"}

(* C1: in every reachable state of the stored trips table, no two stored *)
(* trips have the same gate-pass number, whatever Start Trip, End Trip,   *)
(* Log Refuel and delete runs the sessions interleave.                     *)
C1_GatePassUnique ==
  \A i, j \in DOMAIN trips_csv :
    i # j => trips_csv[i].GatePassNumber # trips_csv[j].GatePassNumber

(* C2: in every reachable state of the stored trips table, every (driver, *)
(* vehicle) pair has at most one stored trip with status open, whatever    *)
(* runs the sessions interleave.                                           *)
C2_OneOpenTripPerPair ==
  \A i, j \in DOMAIN trips_csv :
    /\ i # j
    /\ trips_csv[i].Status = "open"
    /\ trips_csv[j].Status = "open"
    => <<trips_csv[i].Driver, trips_csv[i].VehicleReg>>
         # <<trips_csv[j].Driver, trips_csv[j].VehicleReg>>

(* C3: once a stored trip is closed, every later state that still stores  *)
(* it shows it closed with the same end timestamp, end odometer, distance  *)
(* and allowances; no Start Trip, End Trip or Log Refuel run, of one       *)
(* session or of interleaved sessions, re-opens or edits it.               *)
C3_ClosedTripImmutable ==
  [][\A i \in ClosedTrips : \A j \in DOMAIN trips_csv' :
       trips_csv'[j].TripID = trips_csv[i].TripID
       => /\ trips_csv'[j].Status = "closed"
          /\ trips_csv'[j].EndDateTime = trips_csv[i].EndDateTime
          /\ trips_csv'[j].EndMileage = trips_csv[i].EndMileage
          /\ trips_csv'[j].DistanceKM = trips_csv[i].DistanceKM
          /\ trips_csv'[j].DailyAllowance = trips_csv[i].DailyAllowance
          /\ trips_csv'[j].OffloadingPay = trips_csv[i].OffloadingPay
          /\ trips_csv'[j].LoaderAllowance = trips_csv[i].LoaderAllowance
          /\ trips_csv'[j].SecurityFee = trips_csv[i].SecurityFee
          /\ trips_csv'[j].ParkingFee = trips_csv[i].ParkingFee
          /\ trips_csv'[j].NightOutAllowance = trips_csv[i].NightOutAllowance]_vars

(* the stored records the trip found by session s resolves to *)
StoredTarget(s) ==
  {i \in DOMAIN trips_csv :
     trips_csv[i].TripID = session_state[s].open_trip_for_driver[1].TripID}

(* C4: End Trip is refused with NotFound and leaves the stored trips      *)
(* table unchanged whenever, at submission, the targeted trip id does not  *)
(* resolve to exactly one stored record or that record is not open; this   *)
(* covers a trip found open and closed by another session before the      *)
(* submission.  The submission carries the photo and a valid odometer and  *)
(* the run has loaded the table as it is stored.                           *)
C4_EndTripNotFound ==
  [][\A s \in Sessions, f \in EndForms :
       /\ SubmitEndTrip(s, f)
       /\ EndTripOutcome(s, f) \notin {"ValidationError", "InvalidOdometer"}
       /\ trips_df[s] = load_csv_with_schema(TRIPS_CSV, trips_csv)
       /\ \/ Cardinality(StoredTarget(s)) # 1
          \/ \E i \in StoredTarget(s) : trips_csv[i].Status # "open"
       => /\ EndTripOutcome(s, f) = "NotFound"
          /\ trips_csv' = trips_csv]_vars

(* C5: in every reachable state every stored closed trip has its end      *)
(* odometer at or above its start odometer and its distance equal to end   *)
(* minus start to 2 decimals, so its distance is not negative.             *)
C5_ClosedTripDistance ==
  \A i \in ClosedTrips :
    /\ trips_csv[i].EndMileage >= trips_csv[i].StartMileage
    /\ trips_csv[i].DistanceKM % 10 = 0
    /\ 2 * (trips_csv[i].DistanceKM - (trips_csv[i].EndMileage - trips_csv[i].StartMileage))
         \in -10..10
    /\ trips_csv[i].DistanceKM >= 0

(* a closed trip from odometer 100 to 150.004 is stored with distance 50.00 *)
C5_Witness ==
  \E i \in ClosedTrips :
    /\ trips_csv[i].StartMileage = 100000
    /\ trips_csv[i].EndMileage = 150004
    /\ trips_csv[i].DistanceKM = 50000

(* C6: two sessions' Start Trip runs for different drivers and gate-pass  *)
(* numbers can load the same trips table, pass both checks, write and      *)
(* report success, and the table after the second write lacks the trip the *)
(* first wrote.  Every successful Start Trip (the step of a run that       *)
(* issues a trip id) leaves the table it loaded plus its own trip, so no   *)
(* trip stored since its load survives its write.                          *)
C6_StartTripOverwrites ==
  [][\A s \in Sessions :
       /\ pc[s] = "loaded"
       /\ pc'[s] = "idle"
       /\ nextTrip' = nextTrip + 1
       => /\ Len(trips_csv') = Len(trips_df[s]) + 1
          /\ \A i \in DOMAIN trips_csv :
               trips_csv[i].TripID \notin TripIDs(trips_df[s])
               => trips_csv[i].TripID \notin TripIDs(trips_csv')]_vars

(* both sessions loaded the empty table; trip 1 was written, then trip 2  *)
(* of another driver under another gate-pass number was written over it    *)
C6_Witness ==
  \E r \in overwritten :
    /\ r.TripID = 1
    /\ Len(trips_csv) = 1
    /\ trips_csv[1].TripID = 2
    /\ trips_csv[1].Driver # r.Driver
    /\ {trips_csv[1].GatePassNumber, r.GatePassNumber} = {"GP1", "GP2"}

(* C7: a fuel entry's stored distance since the last refuel and its       *)
(* efficiency are, in every state that stores the entry, the values        *)
(* computed when Log Refuel created it, whatever Start Trip, End Trip, Log *)
(* Refuel or trip deletion runs follow or interleave.                      *)
C7_FuelEntryFrozen ==
  \A i \in DOMAIN fuel_csv :
    /\ fuel_csv[i].FuelID \in DOMAIN refuel_log
    /\ fuel_csv[i].DistanceSinceLastRefuelKM
         = refuel_log[fuel_csv[i].FuelID].DistanceSinceLastRefuelKM
    /\ fuel_csv[i].EfficiencyKMperL = refuel_log[fuel_csv[i].FuelID].EfficiencyKMperL

(* an entry created with distance 50.00 and efficiency 5.00 is stored     *)
(* unchanged after the trip it measured has been deleted                   *)
C7_Witness ==
  /\ trips_csv = <<>>
  /\ nextTrip > 1
  /\ \E i \in DOMAIN fuel_csv :
       /\ fuel_csv[i].DistanceSinceLastRefuelKM = 50000
       /\ fuel_csv[i].EfficiencyKMperL = 500

(* the stored ledger as a run loads it *)
Trips == load_csv_with_schema(TRIPS_CSV, trips_csv)
Fuel == load_csv_with_schema(FUEL_CSV, fuel_csv)

Drivers == {"A", "B"}

(* the sum the ledger rules prescribe: the distances of the closed trips  *)
(* of the pair that ended after the pair's latest fuel entry, if it has    *)
(* one, and not after asOf                                                 *)
DistanceSinceLastRefuel(trips, fuel, driver, vehicle, asOf) ==
  LET refuels == {fuel[k].DateTime : k \in {n \in DOMAIN fuel :
                    fuel[n].Driver = driver /\ fuel[n].VehicleReg = vehicle}}
      qualifies(i) ==
        /\ trips[i].Driver = driver
        /\ trips[i].VehicleReg = vehicle
        /\ trips[i].Status = "closed"
        /\ trips[i].EndDateTime <= asOf
        /\ \A r \in refuels : trips[i].EndDateTime > r
  IN SumSeq([i \in DOMAIN trips |-> IF qualifies(i) THEN trips[i].DistanceKM ELSE 0])

(* the ledger without the trips and fuel entries that do not concern a pair *)
OwnClosedTrips(trips, driver, vehicle) ==
  SelectSeq(trips, LAMBDA t : t.Driver = driver /\ t.VehicleReg = vehicle
                              /\ t.Status = "closed")
OwnFuel(fuel, driver, vehicle) ==
  SelectSeq(fuel, LAMBDA e : e.Driver = driver /\ e.VehicleReg = vehicle)

(* C8: on every stored ledger, for every driver, vehicle and asOf, the    *)
(* distance since the last refuel is the sum of distance over exactly the  *)
(* closed trips of the pair that ended strictly after the pair's latest    *)
(* fuel entry (no lower bound without one) and not after asOf, 0 when no   *)
(* trip qualifies; other pairs' trips, open trips and other pairs' fuel    *)
(* entries do not affect it.                                               *)
C8_DistanceSinceLastRefuel ==
  \A driver \in Drivers, vehicle \in VEHICLES, asOf \in 0..MaxClock :
    /\ distance_since_last_refuel_km(Trips, Fuel, driver, vehicle, asOf)
         = DistanceSinceLastRefuel(Trips, Fuel, driver, vehicle, asOf)
    /\ distance_since_last_refuel_km(Trips, Fuel, driver, vehicle, asOf)
         = distance_since_last_refuel_km(OwnClosedTrips(Trips, driver, vehicle),
                                         OwnFuel(Fuel, driver, vehicle),
                                         driver, vehicle, asOf)

(* A refuelled at second 0 and closed a 50.00 km trip at second 1, and B  *)
(* has a fuel entry too: the distance of A is 0 as of second 0 and 50.00   *)
(* as of second 1                                                          *)
C8_Witness ==
  /\ \E k \in DOMAIN Fuel : Fuel[k].Driver = "B"
  /\ \E k \in DOMAIN Fuel :
       Fuel[k].Driver = "A" /\ Fuel[k].VehicleReg = "KCA 940V" /\ Fuel[k].DateTime = 0
  /\ \E i \in DOMAIN Trips :
       /\ Trips[i].Driver = "A" /\ Trips[i].VehicleReg = "KCA 940V"
       /\ Trips[i].Status = "closed" /\ Trips[i].EndDateTime = 1
  /\ distance_since_last_refuel_km(Trips, Fuel, "A", "KCA 940V", 0) = 0
  /\ distance_since_last_refuel_km(Trips, Fuel, "A", "KCA 940V", 1) = 50000

(* C9: a successful Log Refuel (the step that issues a fuel id) appends   *)
(* exactly one fuel entry, whose distance since the last refuel is the     *)
(* prescribed sum for its driver and vehicle on the ledger of that moment  *)
(* as of now, and whose efficiency is that distance divided by the litres, *)
(* to 2 decimals; after a trip of A in KCA 940V from odometer 100 to 150   *)
(* and no earlier refuel, 10 litres give distance 50 and efficiency 5.     *)
C9_LogRefuelEntry ==
  [][nextFuel' = nextFuel + 1
     => /\ Len(fuel_csv') = Len(fuel_csv) + 1
        /\ \A i \in DOMAIN fuel_csv :
             /\ fuel_csv'[i].FuelID = fuel_csv[i].FuelID
             /\ fuel_csv'[i].Litres = fuel_csv[i].Litres
             /\ fuel_csv'[i].DateTime = fuel_csv[i].DateTime
        /\ LET e == fuel_csv'[Len(fuel_csv')]
               d == DistanceSinceLastRefuel(Trips, Fuel, e.Driver, e.VehicleReg, now_iso)
           IN /\ e.FuelID = nextFuel
              /\ e.DistanceSinceLastRefuelKM = d
              /\ 2 * (e.EfficiencyKMperL * e.Litres - 10 * d) \in (-e.Litres)..e.Litres
              /\ ( /\ Len(trips_csv) = 1
                   /\ trips_csv[1].Driver = "A" /\ trips_csv[1].VehicleReg = "KCA 940V"
                   /\ trips_csv[1].Status = "closed"
                   /\ trips_csv[1].StartMileage = 100000
                   /\ trips_csv[1].EndMileage = 150000
                   /\ fuel_csv = <<>>
                   /\ e.Driver = "A" /\ e.VehicleReg = "KCA 940V" /\ e.Litres = 1000
                   => e.DistanceSinceLastRefuelKM = 50000 /\ e.EfficiencyKMperL = 500 )]_vars

(* the ledger after Start Trip(A, KCA 940V, 100), End Trip(150) and Log   *)
(* Refuel(A, KCA 940V, 10 litres): one entry, distance 50.00, efficiency 5 *)
C9_Witness ==
  /\ Len(trips_csv) = 1
  /\ trips_csv[1].Driver = "A" /\ trips_csv[1].VehicleReg = "KCA 940V"
  /\ trips_csv[1].StartMileage = 100000 /\ trips_csv[1].EndMileage = 150000
  /\ Len(fuel_csv) = 1
  /\ nextFuel = 2
  /\ fuel_csv[1].Driver = "A" /\ fuel_csv[1].VehicleReg = "KCA 940V"
  /\ fuel_csv[1].Litres = 1000
  /\ fuel_csv[1].DistanceSinceLastRefuelKM = 50000
  /\ fuel_csv[1].EfficiencyKMperL = 500

(* a Start Trip form that types a gate-pass number some stored trip has *)
ReusesStoredGatePass(f) ==
  /\ strip(f.gate_pass_number) # ""
  /\ \E i \in DOMAIN trips_csv : trips_csv[i].GatePassNumber = strip(f.gate_pass_number)

(* a Start Trip form for a pair that has a stored open trip *)
HasStoredOpenTrip(s, f) ==
  \E i \in DOMAIN trips_csv :
    /\ trips_csv[i].Status = "open"
    /\ trips_csv[i].Driver = strip(f.driver)
    /\ trips_csv[i].VehicleReg = vehicle_widget(s, f.vehicle_reg)

(* C10: every rejected Start Trip (a field or the photo missing, a        *)
(* duplicate gate pass, an open trip) leaves the trips table, the fuel     *)
(* table and the uploads as they were; a second Start Trip for a pair      *)
(* whose first trip is open, and a Start Trip reusing a stored gate-pass   *)
(* number, are rejected, storing no trip and no photo.  The run has loaded *)
(* the tables as they are stored.                                          *)
C10_RejectedStartTrip ==
  [][\A s \in Sessions, f \in StartForms :
       StartTrip(s, f) /\ trips_df[s] = Trips
       => /\ StartTripOutcome(s, f) # "TripStarted" => store' = store
          /\ HasStoredOpenTrip(s, f) \/ ReusesStoredGatePass(f)
             => StartTripOutcome(s, f) # "TripStarted" /\ store' = store]_vars

(* a stored trip that is open and has none of its end fields filled in *)
OpenWithNullEnd(row) ==
  /\ row.Status = "open"
  /\ row.EndDateTime = NaT
  /\ row.EndMileage = NA_NUM
  /\ row.EndMileagePhoto = NoPhoto
  /\ row.DistanceKM = NA_NUM

(* C11: an End Trip whose end odometer is below the start odometer of the *)
(* found trip is refused with InvalidOdometer and changes nothing: the     *)
(* tables and the uploads are as before, the trip stays open with null end *)
(* fields, and the session keeps the found trip for a resubmission.        *)
C11_InvalidOdometer ==
  [][\A f \in SeqEndForms :
       /\ pc[Alone] = "loaded"
       /\ pc'[Alone] = "idle"
       /\ session_state[Alone].open_trip_for_driver # <<>>
       /\ f.end_photo
       /\ f.end_mileage < session_state[Alone].open_trip_for_driver[1].StartMileage
       /\ SubmitEndTrip(Alone, f)
       => /\ EndTripOutcome(Alone, f) = "InvalidOdometer"
          /\ store' = store
          /\ session_state' = session_state
          /\ \A i \in StoredTarget(Alone) :
               OpenWithNullEnd(trips_csv[i]) /\ OpenWithNullEnd(trips_csv'[i])]_vars

(* the run holds a found trip that started at odometer 100, the trip is   *)
(* stored open, and the submission with end odometer 90 is being refused   *)
C11_Witness ==
  /\ pc[Alone] = "loaded"
  /\ session_state[Alone].open_trip_for_driver # <<>>
  /\ session_state[Alone].open_trip_for_driver[1].StartMileage = 100000
  /\ StoredTarget(Alone) # {}
  /\ \E f \in SeqEndForms :
       /\ f.end_mileage = 90000
       /\ EndTripOutcome(Alone, f) = "InvalidOdometer"

(* C12: with the runs following one another, the gate-pass numbers of all *)
(* trips ever created, stored or deleted since, are pairwise distinct: a   *)
(* number once assigned stays unusable for Start Trip after its trip has   *)
(* been deleted.  Stated for the numbers the loader reads back as text;    *)
(* the others already repeat among the stored trips (C1).                  *)
C12_GatePassNeverReused ==
  \A i, j \in DOMAIN gate_log :
    i # j /\ gate_log[i] \notin NA_VALUES => gate_log[i] # gate_log[j]

(* the amount End Trip stores for an allowance input: the amount, 0 for none *)
SuppliedOrZero(amount) == IF amount # 0 THEN amount ELSE 0

(* the start fields and the gate-pass number of two rows agree *)
SameStartFields(a, b) ==
  /\ a.TripID = b.TripID
  /\ a.VehicleReg = b.VehicleReg
  /\ a.Driver = b.Driver
  /\ a.StartDateTime = b.StartDateTime
  /\ a.StartMileage = b.StartMileage
  /\ a.StartMileagePhoto = b.StartMileagePhoto
  /\ a.GatePassNumber = b.GatePassNumber

(* row b is row a closed now by the submission f *)
ClosedBy(a, b, f) ==
  /\ SameStartFields(a, b)
  /\ b.Status = "closed"
  /\ b.EndDateTime = now_iso
  /\ b.EndMileage = f.end_mileage
  /\ 2 * (b.DistanceKM - (f.end_mileage - a.StartMileage)) \in -10..10
  /\ b.DistanceKM % 10 = 0
  /\ b.DailyAllowance = SuppliedOrZero(f.allowances.DailyAllowance)
  /\ b.OffloadingPay = SuppliedOrZero(f.allowances.OffloadingPay)
  /\ b.LoaderAllowance = SuppliedOrZero(f.allowances.LoaderAllowance)
  /\ b.SecurityFee = SuppliedOrZero(f.allowances.SecurityFee)
  /\ b.ParkingFee = SuppliedOrZero(f.allowances.ParkingFee)
  /\ b.NightOutAllowance = SuppliedOrZero(f.allowances.NightOutAllowance)

(* C13: a successful End Trip of a session on its own (the step that      *)
(* takes the found trip from the session) changes exactly one stored trip, *)
(* the located one: end timestamp now, end odometer, distance = end minus  *)
(* start, each allowance the supplied amount or 0, status closed, its      *)
(* start fields and gate-pass number as before; every other trip and the   *)
(* fuel table are unchanged.                                               *)
C13_EndTripFrame ==
  [][/\ session_state[Alone].open_trip_for_driver # <<>>
     /\ session_state'[Alone].open_trip_for_driver = <<>>
     /\ session_state[Alone].logged_in
     => /\ fuel_csv' = fuel_csv
        /\ Len(trips_csv') = Len(trips_csv)
        /\ Cardinality(StoredTarget(Alone)) = 1
        /\ \A j \in DOMAIN trips_csv \ StoredTarget(Alone) : trips_csv'[j] = trips_csv[j]
        /\ \E f \in SeqEndForms :
             /\ SubmitEndTrip(Alone, f)
             /\ \A i \in StoredTarget(Alone) : ClosedBy(trips_csv[i], trips_csv'[i], f)]_vars

(* a row whose six allowance fields are empty *)
NullAllowances(row) ==
  /\ row.DailyAllowance = NA_NUM
  /\ row.OffloadingPay = NA_NUM
  /\ row.LoaderAllowance = NA_NUM
  /\ row.SecurityFee = NA_NUM
  /\ row.ParkingFee = NA_NUM
  /\ row.NightOutAllowance = NA_NUM

(* C14: a successful Start Trip of a session on its own (the step that    *)
(* issues a trip id) appends exactly one trip to the stored table: status  *)
(* open, the given driver, vehicle, gate-pass number and start odometer,   *)
(* end timestamp, end odometer, end photo, distance and the six allowances *)
(* empty; every trip stored before and the fuel table are unchanged.       *)
C14_StartTripFrame ==
  [][nextTrip' = nextTrip + 1
     => /\ fuel_csv' = fuel_csv
        /\ Len(trips_csv') = Len(trips_csv) + 1
        /\ \A j \in DOMAIN trips_csv : trips_csv'[j] = trips_csv[j]
        /\ \E f \in SeqStartForms :
             /\ StartTrip(Alone, f)
             /\ LET row == trips_csv'[Len(trips_csv')]
                IN /\ row.TripID = nextTrip
                   /\ row.Driver = strip(f.driver)
                   /\ row.VehicleReg = strip(f.vehicle_reg)
                   /\ row.GatePassNumber = strip(f.gate_pass_number)
                   /\ row.StartMileage = f.start_mileage
                   /\ OpenWithNullEnd(row)
                   /\ NullAllowances(row)]_vars

(* the days a date input of the dashboard can be set to *)
Dates == 0..date(MaxClock)

(* a timestamp that falls in a range of days *)
InRange(ts, start_date, end_date) ==
  ts # NaT /\ date(ts) >= start_date /\ date(ts) <= end_date

(* C15: with a date range set, the trip listing of the report holds       *)
(* exactly the trips, among those matching the vehicle and driver filters, *)
(* whose start or end timestamp falls in the range, so a trip that started *)
(* before the range and ended in it is listed; the fuel listing holds      *)
(* exactly the fuel entries whose timestamp falls in the range.            *)
C15_ReportDateRange ==
  \A start_date \in Dates, end_date \in Dates,
     vehicle_filter \in {{}, {"KCA 940V"}}, driver_filter \in {{}, {"A"}} :
    /\ filtered_trips(Trips, TRUE, start_date, end_date, vehicle_filter, driver_filter)
         = SelectSeq(Trips, LAMBDA t :
             /\ vehicle_filter # {} => t.VehicleReg \in vehicle_filter
             /\ driver_filter # {} => t.Driver \in driver_filter
             /\ \/ InRange(t.StartDateTime, start_date, end_date)
                \/ InRange(t.EndDateTime, start_date, end_date))
    /\ filtered_fuel(Fuel, TRUE, start_date, end_date, vehicle_filter, driver_filter)
         = SelectSeq(Fuel, LAMBDA e :
             /\ vehicle_filter # {} => e.VehicleReg \in vehicle_filter
             /\ driver_filter # {} => e.Driver \in driver_filter
             /\ InRange(e.DateTime, start_date, end_date))

(* C16: End Trip stores the end photo only when it succeeds: a submission  *)
(* that ends in NotFound, or in any other refusal, leaves the uploads as   *)
(* they were.                                                              *)
C16_EndPhotoOnlyOnSuccess ==
  [][\A f \in SeqEndForms :
       /\ pc[Alone] = "loaded"
       /\ pc'[Alone] = "idle"
       /\ session_state[Alone].open_trip_for_driver # <<>>
       /\ EndTripOutcome(Alone, f) # "TripEnded"
       /\ SubmitEndTrip(Alone, f)
       => uploads' = uploads]_vars

(* the sum of the distance since the last refuel over the fuel entries of  *)
(* a pair, and the sum of the distance over its closed trips               *)
AttributedDistance(fuel, driver, vehicle) ==
  LET own == OwnFuel(fuel, driver, vehicle)
  IN SumSeq([k \in DOMAIN own |-> own[k].DistanceSinceLastRefuelKM])

ClosedDistance(trips, driver, vehicle) ==
  LET own == OwnClosedTrips(trips, driver, vehicle)
  IN SumSeq([k \in DOMAIN own |-> own[k].DistanceKM])

(* C17: distance is conserved across refuels.  With one session, a clock   *)
(* that never goes back and no record deleted so far, right after every    *)
(* logged refuel the distance attributed to the fuel entries of the pair   *)
(* that refuelled is the distance of the closed trips of that pair.        *)
C17_DistanceConserved ==
  [][/\ nextFuel' = nextFuel + 1
     /\ deleted_trips = {}
     /\ Len(trips_csv') = nextTrip' - 1
     /\ Len(fuel_csv') = nextFuel' - 1
     => LET fuel == load_csv_with_schema(FUEL_CSV, fuel_csv')
            trips == load_csv_with_schema(TRIPS_CSV, trips_csv')
            logged == fuel[Len(fuel)]
        IN AttributedDistance(fuel, logged.Driver, logged.VehicleReg)
             = ClosedDistance(trips, logged.Driver, logged.VehicleReg)]_vars

(* C18: a driver session closes only trips of the vehicle of its current   *)
(* login: whenever a stored trip goes from open to closed while the role   *)
(* of the session is driver, the trip has the vehicle of the session, over *)
(* every sequence of logins, finds, logouts and submissions.               *)
C18_DriverClosesOwnVehicle ==
  [][\A i \in DOMAIN trips_csv :
       /\ i \in DOMAIN trips_csv'
       /\ trips_csv[i].Status = "open"
       /\ trips_csv'[i].Status = "closed"
       /\ session_state[Alone].role = "driver"
       => trips_csv'[i].VehicleReg = session_state[Alone].vehicle]_vars

(* C19: a trip removed by Delete Selected Trips never reappears: in every  *)
(* interleaving of the runs of the sessions, no stored trip has the TripID *)
(* of a trip that a delete has removed.                                    *)
C19_DeletedNeverReappears ==
  \A i \in DOMAIN trips_csv : trips_csv[i].TripID \notin deleted_trips

====
